---- MODULE Spec2Model ----
(***************************************************************************)
(* AniConvert: track selection, prompt loop and per-directory track-layout *)
(* consistency check, modelled from src/aniconvert.py (the current script) *)
(* and src/main.py (the older script, names prefixed main_); the parsers   *)
(* of the scan output, merge_track_titles, and one run of main() of        *)
(* src/aniconvert.py.  Each part has its own specification over the same   *)
(* variables; the parts it does not use stay idle.                         *)
(*                                                                         *)
(* Strings the code inspects character by character (language codes, the   *)
(* line typed at the prompt) are sequences of one-character strings.       *)
(* Python's None is the empty tuple, a present optional value v is <<v>>.  *)
(***************************************************************************)
EXTENDS Integers, Sequences, FiniteSets, TLC

VARIABLES
    variant,              \* which script runs: "aniconvert" or "main"
    sel_pc,               \* "idle", "call", "prompt" (blocked in input()), "done", "raised"
    track_list,           \* select_best_track argument
    preferred_languages,  \* select_best_track argument
    filtered_tracks,      \* <<list>> once filter_tracks_by_language was called
    prompt_list,          \* the list handed to prompt_select_track
    prompt_calls,         \* invocations of prompt_select_track in this call
    input_str,            \* <<line>>: the line read in the loop pass that returned
    prompt_choice,        \* <<track>>: what prompt_select_track returned
    result,               \* <<track>> or None: what select_best_track returned
    dir_pc,               \* "idle", "scan", "done", "raised"
    file_count,           \* len(file_names)
    scanned,              \* layouts returned by get_track_info so far, in order
    track_info_set,       \* the set() of get_track_info_for_directory
    dir_result,           \* <<layout>> or None
    parse_pc,             \* "idle", "call", "done"
    output_lines,         \* the scan output handed to parse_handbrake_scan_output
    parse_result,         \* <<outcome>> of parse_handbrake_scan_output
    track_parse,          \* <<call>>: one call of parse_handbrake_track_info
    main_parse_result,    \* <<outcome>> of main.py's parse_handbrake_scan_output
    merge_pc,             \* "idle", "call", "done"
    hb_tracks,            \* merge_track_titles argument, mutated in place
    ff_streams,           \* merge_track_titles argument: None or a list
    merge_calls,          \* calls of merge_track_titles made on hb_tracks
    merge_outcome,        \* "none", "ok", or the assertion message of the last call
    hb_initial,           \* hb_tracks as constructed
    hb_first,             \* <<hb_tracks>> after the first call that returned
    run_pc,               \* where main() is; "ended" once the program is over
    duplicate_action,     \* args.duplicate_action
    dir_list,             \* per directory with videos, the number of its files
    dir_index,            \* directory generate_batches is at (1-based)
    file_index,           \* files of the directory or batch already dealt with
    mixed,                \* two scans of the current directory returned different layouts
    audio_track,          \* generate_batch's local
    subtitle_track,       \* generate_batch's local
    prompted,             \* kinds of track the current directory was prompted for
    batch_list,           \* generate_batches' result
    batch_index,          \* batch main's loop is at (1-based)
    procs,                \* external processes started and not waited for
    partial_output,       \* <<output path>> of the conversion in progress, if on disk
    attempts,             \* calls of run_handbrake
    last_exit,            \* how the last encoder waited for exited
    exit_cause,           \* "none", "done", or the exception that ended the program
    exit_at,              \* run_pc when that exception was raised
    existing              \* <<directory, file>> whose output was found to be a regular file

selVars == <<variant, sel_pc, track_list, preferred_languages, filtered_tracks,
             prompt_list, prompt_calls, input_str, prompt_choice, result>>
dirVars == <<dir_pc, file_count, scanned, track_info_set, dir_result>>
parseVars == <<parse_pc, output_lines, parse_result, track_parse,
               main_parse_result>>
mergeVars == <<merge_pc, hb_tracks, ff_streams, merge_calls, merge_outcome,
               hb_initial, hb_first>>
runVars == <<run_pc, duplicate_action, dir_list, dir_index, file_index, mixed,
             audio_track, subtitle_track, prompted, batch_list, batch_index, procs,
             partial_output, attempts, last_exit, exit_cause, exit_at, existing>>
notSelVars == <<dirVars, parseVars, mergeVars, runVars>>
notDirVars == <<selVars, parseVars, mergeVars, runVars>>
notParseVars == <<selVars, dirVars, mergeVars, runVars>>
notMergeVars == <<selVars, dirVars, parseVars, runVars>>
\* A run keeps its track_info_set in the variable of that name.
notRunVars == <<selVars, parseVars, mergeVars, dir_pc, file_count, scanned, dir_result>>
vars == <<selVars, dirVars, parseVars, mergeVars, runVars>>

None == <<>>
Some(v) == <<v>>

(***************************************************************************)
(* Bounds                                                                  *)
(***************************************************************************)
MaxTracks == 3
MaxIndex == 3
MaxPrefs == 2
MaxInputLen == 2
MaxFiles == 3

(***************************************************************************)
(* Language codes and str.lower()                                          *)
(***************************************************************************)
jpn == <<"j", "p", "n">>
eng == <<"e", "n", "g">>
fre == <<"f", "r", "e">>
ENG == <<"E", "N", "G">>

LowerChar(c) ==
    CASE c = "E" -> "e"
      [] c = "N" -> "n"
      [] c = "G" -> "g"
      [] OTHER -> c

lower(s) == [i \in DOMAIN s |-> LowerChar(s[i])]

TrackLanguageCodes == {jpn, eng, fre}
PreferredLanguageCodes == {jpn, eng, ENG}

Range(s) == {s[i] : i \in DOMAIN s}

SeqsUpTo(S, n) == UNION {[1..k -> S] : k \in 0..n}

\* Track lists as a scan produces them: indices strictly increasing.
TrackLists ==
    {tl \in SeqsUpTo([index : 1..MaxIndex, language_code : TrackLanguageCodes], MaxTracks) :
        \A i \in DOMAIN tl : \A j \in DOMAIN tl : i < j => tl[i].index < tl[j].index}

PreferenceLists == SeqsUpTo(PreferredLanguageCodes, MaxPrefs)

(***************************************************************************)
(* filter_tracks_by_language                                               *)
(***************************************************************************)
TracksOfLanguage(tl, language) ==
    SelectSeq(tl, LAMBDA t : lower(t.language_code) = language)

RECURSIVE filter_from(_, _, _, _)
filter_from(tl, prefs, k, fallback) ==
    IF k > Len(prefs) THEN fallback
    ELSE LET language == lower(prefs[k])
             tracks == TracksOfLanguage(tl, language)
         IN  IF Len(tracks) >= 1 THEN tracks
             ELSE filter_from(tl, prefs, k + 1, fallback)

\* Mutant: collects the tracks of every preferred language instead of
\* stopping at the first language that has one.
filter_all_preferred(tl, prefs) ==
    SelectSeq(tl, LAMBDA t :
        \E k \in DOMAIN prefs : lower(t.language_code) = lower(prefs[k]))

\* Mutant: compares the codes as written, without lower().
filter_case_sensitive(tl, prefs) ==
    LET tracks(k) == SelectSeq(tl, LAMBDA t : t.language_code = prefs[k])
        hits == {k \in DOMAIN prefs : Len(tracks(k)) >= 1}
    IN  IF hits = {} THEN <<>>
        ELSE tracks(CHOOSE k \in hits : \A j \in hits : k <= j)

filter_tracks_by_language(tl, prefs) == filter_from(tl, prefs, 1, <<>>)

main_filter_tracks_by_language(tl, prefs) == filter_from(tl, prefs, 1, tl)

(***************************************************************************)
(* select_best_track, up to its return or its call of prompt_select_track  *)
(***************************************************************************)
Return(t, filtered) ==
    [prompt |-> FALSE, track |-> t, list |-> <<>>, filtered |-> filtered]
Prompt(list, filtered) ==
    [prompt |-> TRUE, track |-> None, list |-> list, filtered |-> filtered]

\* Mutant: prompts on the (empty) filtered list when no language matches.
select_best_track_prompts_filtered(tl, prefs) ==
    IF Len(tl) = 0 THEN Return(None, None)
    ELSE IF Len(tl) = 1 THEN Return(Some(tl[1]), None)
    ELSE LET filtered == filter_tracks_by_language(tl, prefs)
         IN  IF Len(filtered) = 1 THEN Return(Some(filtered[1]), Some(filtered))
             ELSE Prompt(filtered, Some(filtered))

\* Mutant: no shortcut for a list of one track.
select_best_track_no_shortcut(tl, prefs) ==
    IF Len(tl) = 0 THEN Return(None, None)
    ELSE LET filtered == filter_tracks_by_language(tl, prefs)
         IN  IF Len(filtered) = 1 THEN Return(Some(filtered[1]), Some(filtered))
             ELSE IF Len(filtered) = 0 THEN Prompt(tl, Some(filtered))
             ELSE Prompt(filtered, Some(filtered))

\* Mutant: takes the first of several matching tracks without asking.
select_best_track_first_of_many(tl, prefs) ==
    IF Len(tl) = 0 THEN Return(None, None)
    ELSE IF Len(tl) = 1 THEN Return(Some(tl[1]), None)
    ELSE LET filtered == filter_tracks_by_language(tl, prefs)
         IN  IF Len(filtered) >= 1 THEN Return(Some(filtered[1]), Some(filtered))
             ELSE Prompt(tl, Some(filtered))

select_best_track(tl, prefs) ==
    IF Len(tl) = 0 THEN Return(None, None)
    ELSE IF Len(tl) = 1 THEN Return(Some(tl[1]), None)
    ELSE LET filtered == filter_tracks_by_language(tl, prefs)
         IN  IF Len(filtered) = 1 THEN Return(Some(filtered[1]), Some(filtered))
             ELSE IF Len(filtered) = 0 THEN Prompt(tl, Some(filtered))
             ELSE Prompt(filtered, Some(filtered))

main_select_best_track(tl, prefs) ==
    LET filtered == main_filter_tracks_by_language(tl, prefs)
    IN  IF Len(filtered) = 1 THEN Return(Some(filtered[1]), Some(filtered))
        ELSE Prompt(filtered, Some(filtered))

(***************************************************************************)
(* prompt_select_track: int(input_str) and get_track_by_index              *)
(***************************************************************************)
InputChars == {"1", "2", " ", "a", "-"}
InputLines == SeqsUpTo(InputChars, MaxInputLen)

Digits == {"0", "1", "2", "3", "4", "5", "6", "7", "8", "9"}
DigitValue(c) ==
    CASE c = "0" -> 0 [] c = "1" -> 1 [] c = "2" -> 2 [] c = "3" -> 3
      [] c = "4" -> 4 [] c = "5" -> 5 [] c = "6" -> 6 [] c = "7" -> 7
      [] c = "8" -> 8 [] c = "9" -> 9

RECURSIVE lstrip(_)
lstrip(s) == IF s # <<>> /\ Head(s) = " " THEN lstrip(Tail(s)) ELSE s

RECURSIVE rstrip(_)
rstrip(s) ==
    IF s # <<>> /\ s[Len(s)] = " " THEN rstrip(SubSeq(s, 1, Len(s) - 1)) ELSE s

RECURSIVE DecimalValue(_)
DecimalValue(s) ==
    IF s = <<>> THEN 0
    ELSE 10 * DecimalValue(SubSeq(s, 1, Len(s) - 1)) + DigitValue(s[Len(s)])

\* int(): surrounding whitespace is ignored, one sign is allowed, the rest
\* must be one or more digits; anything else raises ValueError (None here).
int(s) ==
    LET t == rstrip(lstrip(s))
        signed == t # <<>> /\ Head(t) \in {"-", "+"}
        body == IF signed THEN Tail(t) ELSE t
    IN  IF body = <<>> \/ \E i \in DOMAIN body : body[i] \notin Digits
        THEN None
        ELSE IF signed /\ Head(t) = "-" THEN Some(0 - DecimalValue(body))
        ELSE Some(DecimalValue(body))

\* Mutant: falls back to the first track instead of raising IndexError.
get_track_by_index_default(tl, track_index) ==
    LET hits == {i \in DOMAIN tl : tl[i].index = track_index}
    IN  IF hits # {} THEN Some(tl[CHOOSE i \in hits : \A j \in hits : i <= j])
        ELSE IF tl # <<>> THEN Some(tl[1])
        ELSE None

\* The first track with that index, or IndexError (None here).
get_track_by_index(tl, track_index) ==
    LET hits == {i \in DOMAIN tl : tl[i].index = track_index}
    IN  IF hits = {} THEN None
        ELSE Some(tl[CHOOSE i \in hits : \A j \in hits : i <= j])

\* One pass of the while loop: None means "print a message and ask again".
prompt_select_track(tl, line) ==
    LET track_index == int(line)
    IN  IF track_index = None THEN None
        ELSE get_track_by_index(tl, track_index[1])

(***************************************************************************)
(* Track descriptors and layouts: __eq__ and __hash__                      *)
(***************************************************************************)
BaseAudio ==
    [index |-> 1, description |-> "Japanese (AAC) (2.0 ch)", language_code |-> jpn,
     sample_rate |-> Some(48000), bit_rate |-> Some(128000), title |-> None]

BaseSubtitle ==
    [index |-> 1, language |-> "English", language_code |-> eng,
     format |-> "UTF-8", source |-> "SSA", title |-> None]

\* Number of fields in which two descriptors of one kind differ.
FieldDiffs(a, b) == Cardinality({f \in DOMAIN a : a[f] # b[f]})

MaxFieldDiffs == 1
MaxLayoutTracks == 1

\* Descriptors as HandBrakeAudioInfo.__init__ builds them (both rates or
\* neither) and merge_track_titles completes them.
AudioInfos ==
    {a \in [index : {1, 2},
            description : {"Japanese (AAC) (2.0 ch)", "Japanese (AC3) (5.1 ch)"},
            language_code : {jpn, eng},
            sample_rate : {Some(48000), Some(44100)},
            bit_rate : {Some(128000), Some(192000)},
            title : {None, Some("Commentary")}] :
        FieldDiffs(a, BaseAudio) <= MaxFieldDiffs}
    \cup {[BaseAudio EXCEPT !.sample_rate = None, !.bit_rate = None]}

SubtitleInfos ==
    {b \in [index : {1, 2},
            language : {"English", "Japanese"},
            language_code : {eng, jpn},
            format : {"UTF-8", "PGS"},
            source : {"SSA", "VOBSUB"},
            title : {None, Some("Signs")}] :
        FieldDiffs(b, BaseSubtitle) <= MaxFieldDiffs}

Layouts ==
    [audio_tracks : SeqsUpTo(AudioInfos, MaxLayoutTracks),
     subtitle_tracks : SeqsUpTo(SubtitleInfos, MaxLayoutTracks)]

HandBrakeAudioInfo_hash(a) ==
    <<a.index, a.description, a.language_code, a.sample_rate, a.language_code, a.title>>

HandBrakeAudioInfo_eq(a, b) ==
    /\ a.index = b.index
    /\ a.description = b.description
    /\ a.language_code = b.language_code
    /\ a.sample_rate = b.sample_rate
    /\ a.language_code = b.language_code
    /\ a.title = b.title

HandBrakeSubtitleInfo_hash(a) ==
    <<a.index, a.language, a.language_code, a.format, a.source, a.title>>

HandBrakeSubtitleInfo_eq(a, b) ==
    /\ a.index = b.index
    /\ a.language = b.language
    /\ a.language_code = b.language_code
    /\ a.format = b.format
    /\ a.source = b.source
    /\ a.title = b.title

\* tuple.__eq__ over the elements' __eq__
audio_tuple_eq(s, t) ==
    Len(s) = Len(t) /\ \A i \in DOMAIN s : HandBrakeAudioInfo_eq(s[i], t[i])
subtitle_tuple_eq(s, t) ==
    Len(s) = Len(t) /\ \A i \in DOMAIN s : HandBrakeSubtitleInfo_eq(s[i], t[i])

HandBrakeTrackInfo_hash(x) ==
    <<[i \in DOMAIN x.audio_tracks |-> HandBrakeAudioInfo_hash(x.audio_tracks[i])],
      [i \in DOMAIN x.subtitle_tracks |-> HandBrakeSubtitleInfo_hash(x.subtitle_tracks[i])]>>

HandBrakeTrackInfo_eq(x, y) ==
    /\ audio_tuple_eq(x.audio_tracks, y.audio_tracks)
    /\ subtitle_tuple_eq(x.subtitle_tracks, y.subtitle_tracks)

\* set.add: when the set holds an element with the same hash that compares
\* equal, that element stays and the new one is dropped.
set_add(S, x) ==
    IF \E y \in S : /\ HandBrakeTrackInfo_hash(y) = HandBrakeTrackInfo_hash(x)
                    /\ HandBrakeTrackInfo_eq(y, x)
    THEN S
    ELSE S \cup {x}

(***************************************************************************)
(* Actions of the selection                                                *)
(***************************************************************************)
DirIdle ==
    /\ dir_pc = "idle"
    /\ file_count = 0
    /\ scanned = <<>>
    /\ track_info_set = {}
    /\ dir_result = None

ParseIdle ==
    /\ parse_pc = "idle"
    /\ output_lines = <<>>
    /\ parse_result = None
    /\ track_parse = None
    /\ main_parse_result = None

MergeIdle ==
    /\ merge_pc = "idle"
    /\ hb_tracks = <<>>
    /\ ff_streams = None
    /\ merge_calls = 0
    /\ merge_outcome = "none"
    /\ hb_initial = <<>>
    /\ hb_first = None

RunIdle ==
    /\ run_pc = "idle"
    /\ duplicate_action = "skip"
    /\ dir_list = <<>>
    /\ dir_index = 0
    /\ file_index = 0
    /\ mixed = FALSE
    /\ audio_track = None
    /\ subtitle_track = None
    /\ prompted = {}
    /\ batch_list = <<>>
    /\ batch_index = 0
    /\ procs = {}
    /\ partial_output = None
    /\ attempts = 0
    /\ last_exit = "none"
    /\ exit_cause = "none"
    /\ exit_at = "none"
    /\ existing = {}

SelectInit ==
    /\ variant \in {"aniconvert", "main"}
    /\ sel_pc = "call"
    /\ track_list \in TrackLists
    /\ preferred_languages \in PreferenceLists
    /\ filtered_tracks = None
    /\ prompt_list = <<>>
    /\ prompt_calls = 0
    /\ input_str = None
    /\ prompt_choice = None
    /\ result = None
    /\ DirIdle
    /\ ParseIdle
    /\ MergeIdle
    /\ RunIdle

Apply(r) ==
    /\ filtered_tracks' = r.filtered
    /\ IF r.prompt
       THEN /\ sel_pc' = "prompt"
            /\ prompt_list' = r.list
            /\ prompt_calls' = prompt_calls + 1
            /\ result' = result
       ELSE /\ sel_pc' = "done"
            /\ result' = r.track
            /\ UNCHANGED <<prompt_list, prompt_calls>>
    /\ UNCHANGED <<variant, track_list, preferred_languages, input_str, prompt_choice>>
    /\ UNCHANGED notSelVars

SelectBestTrack ==
    /\ variant = "aniconvert"
    /\ sel_pc = "call"
    /\ Apply(select_best_track(track_list, preferred_languages))

MainSelectBestTrack ==
    /\ variant = "main"
    /\ sel_pc = "call"
    /\ Apply(main_select_best_track(track_list, preferred_languages))

\* input() returned a line.  Either the loop continues: the line and the
\* number read from it are overwritten by the next pass before anything reads
\* them, so nothing the program can observe has changed.  Or the chosen track
\* is returned, through select_best_track's return statement.
PromptSelectTrack ==
    /\ sel_pc = "prompt"
    /\ \E line \in InputLines :
         LET choice == prompt_select_track(prompt_list, line)
         IN  IF choice = None
             THEN UNCHANGED <<sel_pc, input_str, prompt_choice, result>>
             ELSE /\ sel_pc' = "done"
                  /\ input_str' = Some(line)
                  /\ prompt_choice' = choice
                  /\ result' = choice
    /\ UNCHANGED <<variant, track_list, preferred_languages, filtered_tracks,
                   prompt_list, prompt_calls>>
    /\ UNCHANGED notSelVars

\* input() raised EOFError: nothing catches it, the call ends without a result.
PromptEndOfInput ==
    /\ sel_pc = "prompt"
    /\ sel_pc' = "raised"
    /\ UNCHANGED <<variant, track_list, preferred_languages, filtered_tracks,
                   prompt_list, prompt_calls, input_str, prompt_choice, result>>
    /\ UNCHANGED notSelVars

SelectNext ==
    \/ SelectBestTrack
    \/ MainSelectBestTrack
    \/ PromptSelectTrack
    \/ PromptEndOfInput

SelectSpec == SelectInit /\ [][SelectNext]_vars

(***************************************************************************)
(* get_track_info_for_directory                                            *)
(***************************************************************************)
SelIdle ==
    /\ variant = "aniconvert"
    /\ sel_pc = "idle"
    /\ track_list = <<>>
    /\ preferred_languages = <<>>
    /\ filtered_tracks = None
    /\ prompt_list = <<>>
    /\ prompt_calls = 0
    /\ input_str = None
    /\ prompt_choice = None
    /\ result = None

\* get_files_in_dir yields only directories with at least one file.
DirInit ==
    /\ dir_pc = "scan"
    /\ file_count \in 1..MaxFiles
    /\ scanned = <<>>
    /\ track_info_set = {}
    /\ dir_result = None
    /\ SelIdle
    /\ ParseIdle
    /\ MergeIdle
    /\ RunIdle

\* One pass of the for loop, the scan of the next file returning track_info;
\* after the last file the function returns without another scan.
ScanFile ==
    /\ dir_pc = "scan"
    /\ Len(scanned) < file_count
    /\ \E track_info \in Layouts :
         LET new_set == set_add(track_info_set, track_info)
         IN  /\ scanned' = Append(scanned, track_info)
             /\ track_info_set' = new_set
             /\ IF Cardinality(new_set) > 1
                THEN dir_pc' = "done" /\ dir_result' = None
                ELSE IF Len(scanned) + 1 = file_count
                THEN dir_pc' = "done" /\ dir_result' = Some(CHOOSE x \in new_set : TRUE)
                ELSE UNCHANGED <<dir_pc, dir_result>>
    /\ UNCHANGED file_count
    /\ UNCHANGED notDirVars

\* The scan of the next file raises (scanner exit code, parse or merge
\* failure): nothing in get_track_info_for_directory catches it.
ScanFileRaises ==
    /\ dir_pc = "scan"
    /\ Len(scanned) < file_count
    /\ dir_pc' = "raised"
    /\ UNCHANGED <<file_count, scanned, track_info_set, dir_result>>
    /\ UNCHANGED notDirVars

DirNext ==
    \/ ScanFile
    \/ ScanFileRaises

DirSpec == DirInit /\ [][DirNext]_vars

(***************************************************************************)
(* Scan output: lines, the regular expressions, and the parsers            *)
(*                                                                         *)
(* A line is the parse of its text: kind says which of the literal tests   *)
(* of the code it passes, body holds the groups a pattern would capture.   *)
(*   "input"              Input #0, matroska,webm, from 'a.mkv':           *)
(*   "stream"                 Stream #0.1(jpn): Audio: aac                 *)
(*   "metadata_header"        Metadata:                                    *)
(*   "metadata"                 title           : Commentary               *)
(*   "audio_sentinel"       + audio tracks:                                *)
(*   "subtitle_sentinel"    + subtitle tracks:                             *)
(*   "item"                   + 1, Japanese (AAC) (2.0 ch) (iso639-2: ...  *)
(*   "other"              + title 1:                                       *)
(***************************************************************************)
MaxLines == 4

Line(kind, body) == [kind |-> kind, body |-> body]

\* The text after the item prefix, by shape:
\*   "audio_rates"  1, Japanese (AAC) (2.0 ch) (iso639-2: jpn), 48000Hz, 128000bps
\*   "audio"        2, English (AAC) (2.0 ch) (iso639-2: eng)
\*   "subtitle"     1, English (iso639-2: eng) (UTF-8)(SSA)
\*   "junk"         1, Unknown
InfoStr(form, index, name, code, sample_rate, bit_rate, format, source) ==
    [form |-> form, index |-> index, name |-> name, language_code |-> code,
     sample_rate |-> sample_rate, bit_rate |-> bit_rate,
     format |-> format, source |-> source]

InfoStrs ==
    {InfoStr("audio_rates", 1, "Japanese (AAC) (2.0 ch)", jpn, 48000, 128000, "", ""),
     InfoStr("audio", 2, "English (AAC) (2.0 ch)", eng, 0, 0, "", ""),
     InfoStr("subtitle", 1, "English", eng, 0, 0, "UTF-8", "SSA"),
     InfoStr("junk", 1, "Unknown", <<>>, 0, 0, "", "")}

OutputLineValues ==
    {Line("input", None),
     Line("stream", [stream_index |-> "1", language_code |-> Some(jpn),
                     codec_type |-> "Audio", codec_name |-> "aac"]),
     Line("metadata_header", None),
     Line("metadata", [key |-> "title", value |-> "Commentary"]),
     Line("audio_sentinel", None),
     Line("subtitle_sentinel", None),
     Line("other", None)}
    \cup {Line("item", s) : s \in InfoStrs}

OutputLines == SeqsUpTo(OutputLineValues, MaxLines)

\* output_lines[i] with Python's zero-based index.
At(lines, i) == lines[i + 1]

\* str.startswith for the four prefixes the parsers test.
startswith(line, prefix) ==
    CASE prefix = "Input #0, " -> line.kind = "input"
      [] prefix = "  " -> line.kind \in {"stream", "metadata_header", "metadata",
                                         "audio_sentinel", "subtitle_sentinel", "item"}
      [] prefix = "    + " -> line.kind = "item"
      [] prefix = "    Metadata:" -> line.kind = "metadata_header"

\* re.match anchors at the start only: pattern1 also accepts the longer
\* shapes that continue after the language code.
pattern1_match(info_str) == info_str.form \in {"audio_rates", "audio", "subtitle"}
pattern2_match(info_str) == info_str.form = "audio_rates"
pattern_match(info_str) == info_str.form = "subtitle"

\* An exception in flight: its class, its message, and for the ValueError
\* of a descriptor the text whose repr() the message ends with.
Raised(type, message, info_str) ==
    Some([type |-> type, message |-> message, info_str |-> info_str])

HandBrakeAudioInfo_init(info_str) ==
    IF ~pattern1_match(info_str)
    THEN [raised |-> Raised("ValueError", "Unknown audio track info format: ",
                            Some(info_str)),
          info |-> None]
    ELSE [raised |-> None,
          info |-> Some([index |-> info_str.index,
                         description |-> info_str.name,
                         language_code |-> info_str.language_code,
                         sample_rate |-> IF pattern2_match(info_str)
                                         THEN Some(info_str.sample_rate) ELSE None,
                         bit_rate |-> IF pattern2_match(info_str)
                                      THEN Some(info_str.bit_rate) ELSE None,
                         title |-> None])]

HandBrakeSubtitleInfo_init(info_str) ==
    IF ~pattern_match(info_str)
    THEN [raised |-> Raised("ValueError", "Unknown subtitle track info format: ",
                            Some(info_str)),
          info |-> None]
    ELSE [raised |-> None,
          info |-> Some([index |-> info_str.index,
                         language |-> info_str.name,
                         language_code |-> info_str.language_code,
                         format |-> info_str.format,
                         source |-> info_str.source,
                         title |-> None])]

info_cls_init(info_cls, info_str) ==
    IF info_cls = "HandBrakeAudioInfo"
    THEN HandBrakeAudioInfo_init(info_str)
    ELSE HandBrakeSubtitleInfo_init(info_str)

\* The while loop of parse_handbrake_track_info from index i on.
RECURSIVE track_info_from(_, _, _, _)
track_info_from(lines, i, info_cls, tracks) ==
    IF i < Len(lines) /\ startswith(At(lines, i), "    + ")
    THEN LET made == info_cls_init(info_cls, At(lines, i).body)
         IN  IF made.raised # None
             THEN [raised |-> made.raised, i |-> i, tracks |-> tracks]
             ELSE track_info_from(lines, i + 1, info_cls,
                                  Append(tracks, made.info[1]))
    ELSE [raised |-> None, i |-> i, tracks |-> tracks]

\* Mutant: a line that fails its pattern is dropped and the section ends.
parse_handbrake_track_info_drops_malformed(lines, start_index, info_cls) ==
    LET r == track_info_from(lines, start_index + 1, info_cls, <<>>)
    IN  IF r.raised = None THEN r ELSE [r EXCEPT !.raised = None, !.i = r.i + 1]

\* Mutant: the descriptors come out in reverse order.
parse_handbrake_track_info_reversed(lines, start_index, info_cls) ==
    LET r == track_info_from(lines, start_index + 1, info_cls, <<>>)
    IN  [r EXCEPT !.tracks = [k \in 1..Len(r.tracks) |->
                                 r.tracks[Len(r.tracks) + 1 - k]]]

parse_handbrake_track_info(lines, start_index, info_cls) ==
    track_info_from(lines, start_index + 1, info_cls, <<>>)

\* metadata_pattern accepts exactly the key/value lines under "Metadata:".
metadata_pattern_match(line) == line.kind = "metadata"
stream_pattern_match(line) == line.kind = "stream"

\* dict: a function from the keys present to their values.
dict_set(d, k, v) == [x \in DOMAIN d \cup {k} |-> IF x = k THEN v ELSE d[x]]
\* Mutant: dict.get never finds the key.
dict_get_always_none(d, k) == None

dict_get(d, k) == IF k \in DOMAIN d THEN Some(d[k]) ELSE None

RECURSIVE stream_metadata_from(_, _, _)
stream_metadata_from(lines, i, metadata) ==
    IF i < Len(lines) /\ metadata_pattern_match(At(lines, i))
    THEN stream_metadata_from(lines, i + 1,
             dict_set(metadata, At(lines, i).body.key, At(lines, i).body.value))
    ELSE [i |-> i, metadata |-> metadata]

parse_ffmpeg_stream_metadata(lines, start_index) ==
    stream_metadata_from(lines, start_index + 1, <<>>)

FFmpegStreamInfo(stream_index, codec_type, codec_name, language_code, metadata) ==
    [stream_index |-> stream_index, codec_type |-> codec_type,
     codec_name |-> codec_name, language_code |-> language_code,
     metadata |-> metadata]

\* The while loop of parse_ffmpeg_stream_info from index i on.  The line
\* after an audio or subtitle stream line is read without a length test.
RECURSIVE stream_info_from(_, _, _, _)
stream_info_from(lines, i, audio_streams, subtitle_streams) ==
    IF ~(i < Len(lines) /\ startswith(At(lines, i), "  "))
    THEN [raised |-> None, i |-> i,
          audio_streams |-> audio_streams, subtitle_streams |-> subtitle_streams]
    ELSE IF ~stream_pattern_match(At(lines, i))
    THEN stream_info_from(lines, i + 1, audio_streams, subtitle_streams)
    ELSE LET m == At(lines, i).body
             j == i + 1
         IN  IF m.codec_type \notin {"Audio", "Subtitle"}
             THEN stream_info_from(lines, j, audio_streams, subtitle_streams)
             ELSE IF j >= Len(lines)
             THEN [raised |-> Raised("IndexError", "list index out of range", None), i |-> j,
                   audio_streams |-> audio_streams,
                   subtitle_streams |-> subtitle_streams]
             ELSE LET md == IF startswith(At(lines, j), "    Metadata:")
                            THEN parse_ffmpeg_stream_metadata(lines, j)
                            ELSE [i |-> j, metadata |-> <<>>]
                      info == FFmpegStreamInfo(m.stream_index, m.codec_type,
                                  m.codec_name, m.language_code, md.metadata)
                  IN  stream_info_from(lines, md.i,
                          IF m.codec_type = "Audio"
                          THEN Append(audio_streams, info) ELSE audio_streams,
                          IF m.codec_type = "Subtitle"
                          THEN Append(subtitle_streams, info) ELSE subtitle_streams)

parse_ffmpeg_stream_info(lines, start_index) ==
    stream_info_from(lines, start_index + 1, <<>>, <<>>)

\* The for loop of merge_track_titles over zip(hb_tracks, ff_streams) from
\* position k on: titles are assigned in place, so the tracks before a
\* language mismatch keep the title they were just given.
RECURSIVE merge_from(_, _, _)
merge_from(tracks, streams, k) ==
    IF k > Len(tracks) \/ k > Len(streams)
    THEN [raised |-> None, hb_tracks |-> Some(tracks)]
    ELSE IF Some(tracks[k].language_code) # streams[k].language_code
    THEN [raised |-> Raised("AssertionError", "Track language code mismatch", None),
          hb_tracks |-> Some(tracks)]
    ELSE merge_from([tracks EXCEPT ![k].title = dict_get(streams[k].metadata, "title")],
                    streams, k + 1)

\* hb_tracks_ and ff_streams_ are None or <<list>>; the result carries the
\* list as the call left it.
merge_track_titles(hb_tracks_, ff_streams_) ==
    IF ff_streams_ = None \/ ff_streams_ = Some(<<>>)
    THEN [raised |-> None, hb_tracks |-> hb_tracks_]
    ELSE IF hb_tracks_ = None
    THEN [raised |-> Raised("TypeError", "object of type 'NoneType' has no len()", None), hb_tracks |-> hb_tracks_]
    ELSE IF Len(hb_tracks_[1]) # Len(ff_streams_[1])
    THEN [raised |-> Raised("AssertionError", "Track count mismatch", None),
          hb_tracks |-> hb_tracks_]
    ELSE merge_from(hb_tracks_[1], ff_streams_[1], 1)

HandBrakeTrackInfo(audio_tracks, subtitle_tracks) ==
    IF audio_tracks = None \/ subtitle_tracks = None
    THEN [raised |-> Raised("TypeError", "'NoneType' object is not iterable", None),
          track_info |-> None]
    ELSE [raised |-> None,
          track_info |-> Some([audio_tracks |-> audio_tracks[1],
                               subtitle_tracks |-> subtitle_tracks[1]])]

\* The locals of parse_handbrake_scan_output; the four lists are None
\* until their section is met, <<list>> afterwards.
Frame(raised, i, incremented, hb_a, hb_s, ff_a, ff_s) ==
    [raised |-> raised, i |-> i, incremented |-> incremented,
     hb_audio_tracks |-> hb_a, hb_subtitle_tracks |-> hb_s,
     ff_audio_streams |-> ff_a, ff_subtitle_streams |-> ff_s]

\* First if of the loop body.
scan_input(lines, f) ==
    IF startswith(At(lines, f.i), "Input #0, ")
    THEN LET r == parse_ffmpeg_stream_info(lines, f.i)
         IN  [f EXCEPT !.raised = r.raised, !.i = r.i, !.incremented = TRUE,
                       !.ff_audio_streams = Some(r.audio_streams),
                       !.ff_subtitle_streams = Some(r.subtitle_streams)]
    ELSE f

\* Second and third if: lines[i] is read again at whatever index the
\* parser before it returned.
scan_section(lines, f, sentinel, info_cls) ==
    IF f.raised # None
    THEN f
    ELSE IF f.i >= Len(lines)
    THEN [f EXCEPT !.raised = Raised("IndexError", "list index out of range", None)]
    ELSE IF At(lines, f.i).kind = sentinel
    THEN LET r == parse_handbrake_track_info(lines, f.i, info_cls)
         IN  IF info_cls = "HandBrakeAudioInfo"
             THEN [f EXCEPT !.raised = r.raised, !.i = r.i, !.incremented = TRUE,
                            !.hb_audio_tracks = Some(r.tracks)]
             ELSE [f EXCEPT !.raised = r.raised, !.i = r.i, !.incremented = TRUE,
                            !.hb_subtitle_tracks = Some(r.tracks)]
    ELSE f

RECURSIVE scan_from(_, _)
scan_from(lines, f) ==
    IF ~(f.i < Len(lines))
    THEN f
    ELSE LET f1 == scan_input(lines, [f EXCEPT !.incremented = FALSE])
             f2 == scan_section(lines, f1, "audio_sentinel", "HandBrakeAudioInfo")
             f3 == scan_section(lines, f2, "subtitle_sentinel", "HandBrakeSubtitleInfo")
         IN  IF f3.raised # None
             THEN f3
             ELSE scan_from(lines, [f3 EXCEPT !.i = IF f3.incremented
                                                   THEN f3.i ELSE f3.i + 1])

parse_handbrake_scan_output(lines) ==
    LET f == scan_from(lines, Frame(None, 0, FALSE, None, None, None, None))
        a == merge_track_titles(f.hb_audio_tracks, f.ff_audio_streams)
        s == merge_track_titles(f.hb_subtitle_tracks, f.ff_subtitle_streams)
        made == HandBrakeTrackInfo(a.hb_tracks, s.hb_tracks)
    IN  IF f.raised # None THEN [raised |-> f.raised, track_info |-> None]
        ELSE IF a.raised # None THEN [raised |-> a.raised, track_info |-> None]
        ELSE IF s.raised # None THEN [raised |-> s.raised, track_info |-> None]
        ELSE made

(***************************************************************************)
(* src/main.py: parse_track_info and parse_handbrake_scan_output           *)
(***************************************************************************)
\* main.py's descriptors have no title attribute; its patterns accept the
\* same shapes.
main_info_cls_init(info_cls, info_str) ==
    LET made == info_cls_init(info_cls, info_str)
    IN  IF made.raised # None THEN made
        ELSE [made EXCEPT !.info =
                 Some([f \in DOMAIN made.info[1] \ {"title"} |-> made.info[1][f]])]

\* The while loop of parse_track_info from index i on: lines[i] is read
\* without a length test.
RECURSIVE main_track_info_from(_, _, _, _)
main_track_info_from(lines, i, info_cls, tracks) ==
    IF i >= Len(lines)
    THEN [raised |-> Raised("IndexError", "list index out of range", None),
          i |-> i, tracks |-> tracks]
    ELSE IF startswith(At(lines, i), "    + ")
    THEN LET made == main_info_cls_init(info_cls, At(lines, i).body)
         IN  IF made.raised # None
             THEN [raised |-> made.raised, i |-> i, tracks |-> tracks]
             ELSE main_track_info_from(lines, i + 1, info_cls,
                                       Append(tracks, made.info[1]))
    ELSE [raised |-> None, i |-> i, tracks |-> tracks]

main_parse_track_info(lines, start_index, info_cls) ==
    main_track_info_from(lines, start_index + 1, info_cls, <<>>)

\* The locals of main.py's parse_handbrake_scan_output; the two lists are
\* None until their section is met.
main_Frame(raised, i, audio_tracks, subtitle_tracks) ==
    [raised |-> raised, i |-> i,
     audio_tracks |-> audio_tracks, subtitle_tracks |-> subtitle_tracks]

\* One of the two ifs of the loop body.
main_scan_section(lines, f, sentinel, info_cls) ==
    IF f.raised # None
    THEN f
    ELSE IF f.i >= Len(lines)
    THEN [f EXCEPT !.raised = Raised("IndexError", "list index out of range", None)]
    ELSE IF At(lines, f.i).kind = sentinel
    THEN LET r == main_parse_track_info(lines, f.i, info_cls)
         IN  IF info_cls = "HandBrakeAudioInfo"
             THEN [f EXCEPT !.raised = r.raised, !.i = r.i,
                            !.audio_tracks = Some(r.tracks)]
             ELSE [f EXCEPT !.raised = r.raised, !.i = r.i,
                            !.subtitle_tracks = Some(r.tracks)]
    ELSE f

RECURSIVE main_scan_from(_, _)
main_scan_from(lines, f) ==
    IF ~(f.i < Len(lines))
    THEN f
    ELSE LET f1 == main_scan_section(lines, f, "audio_sentinel", "HandBrakeAudioInfo")
             f2 == main_scan_section(lines, f1, "subtitle_sentinel",
                                     "HandBrakeSubtitleInfo")
         IN  IF f2.raised # None
             THEN f2
             ELSE main_scan_from(lines, [f2 EXCEPT !.i = f2.i + 1])

\* Returns the pair (audio_tracks, subtitle_tracks), each None or <<list>>.
main_parse_handbrake_scan_output(lines) ==
    LET f == main_scan_from(lines, main_Frame(None, 0, None, None))
    IN  [raised |-> f.raised,
         audio_tracks |-> f.audio_tracks, subtitle_tracks |-> f.subtitle_tracks]

(***************************************************************************)
(* Parsing one scan output                                                 *)
(***************************************************************************)
ParseInit ==
    /\ parse_pc = "call"
    /\ output_lines \in OutputLines
    /\ parse_result = None
    /\ track_parse = None
    /\ main_parse_result = None
    /\ SelIdle
    /\ DirIdle
    /\ MergeIdle
    /\ RunIdle

\* parse_handbrake_scan_output(output) returns or raises.
ParseHandbrakeScanOutput ==
    /\ parse_pc = "call"
    /\ parse_pc' = "done"
    /\ parse_result' = Some(parse_handbrake_scan_output(output_lines))
    /\ UNCHANGED <<output_lines, track_parse, main_parse_result>>
    /\ UNCHANGED notParseVars

\* main.py's parse_handbrake_scan_output(output) returns or raises.
MainParseHandbrakeScanOutput ==
    /\ parse_pc = "call"
    /\ parse_pc' = "done"
    /\ main_parse_result' = Some(main_parse_handbrake_scan_output(output_lines))
    /\ UNCHANGED <<output_lines, parse_result, track_parse>>
    /\ UNCHANGED notParseVars

\* One of its calls of parse_handbrake_track_info: start_index is the index
\* of a sentinel line and info_cls the class that goes with that sentinel.
ParseHandbrakeTrackInfo ==
    /\ parse_pc = "call"
    /\ \E start_index \in 0..(Len(output_lines) - 1) :
           \E info_cls \in {"HandBrakeAudioInfo", "HandBrakeSubtitleInfo"} :
               /\ At(output_lines, start_index).kind =
                      (IF info_cls = "HandBrakeAudioInfo"
                       THEN "audio_sentinel" ELSE "subtitle_sentinel")
               /\ track_parse' =
                      Some([start_index |-> start_index, info_cls |-> info_cls,
                            returned |-> parse_handbrake_track_info(
                                             output_lines, start_index, info_cls)])
    /\ parse_pc' = "done"
    /\ UNCHANGED <<output_lines, parse_result, main_parse_result>>
    /\ UNCHANGED notParseVars

ParseNext ==
    \/ ParseHandbrakeScanOutput
    \/ ParseHandbrakeTrackInfo
    \/ MainParseHandbrakeScanOutput

ParseSpec == ParseInit /\ [][ParseNext]_vars

(***************************************************************************)
(* merge_track_titles on one kind of track                                 *)
(***************************************************************************)
MaxMergeTracks == 2
MaxMergeCalls == 2

\* Descriptors as parse_handbrake_track_info hands them over.
MergeTracks ==
    {HandBrakeAudioInfo_init(s).info[1] :
        s \in {x \in InfoStrs : x.form \in {"audio_rates", "audio"}}}
    \cup {HandBrakeSubtitleInfo_init(s).info[1] :
        s \in {x \in InfoStrs : x.form = "subtitle"}}

\* Streams as parse_ffmpeg_stream_info builds them: the language group is
\* optional, the metadata may or may not hold a title.
MergeStreams ==
    {FFmpegStreamInfo("1", "Audio", "aac", code, metadata) :
        code \in {Some(jpn), Some(eng), None},
        metadata \in {<<>>, dict_set(<<>>, "title", "Commentary"),
                      dict_set(dict_set(<<>>, "title", "Director"), "encoder", "Lavf")}}

MergeInit ==
    /\ merge_pc = "call"
    /\ hb_tracks \in SeqsUpTo(MergeTracks, MaxMergeTracks)
    /\ ff_streams \in {None} \cup {Some(s) : s \in SeqsUpTo(MergeStreams, MaxMergeTracks)}
    /\ merge_calls = 0
    /\ merge_outcome = "none"
    /\ hb_initial = hb_tracks
    /\ hb_first = None
    /\ SelIdle
    /\ DirIdle
    /\ ParseIdle
    /\ RunIdle

\* merge_track_titles(hb_tracks, ff_streams) returns: hb_tracks is the same
\* list object before and after, so a further call sees the titles left by
\* this one.
MergeTrackTitles ==
    /\ merge_pc = "call"
    /\ merge_calls < MaxMergeCalls
    /\ LET r == merge_track_titles(Some(hb_tracks), ff_streams)
       IN  /\ r.raised = None
           /\ hb_tracks' = r.hb_tracks[1]
           /\ hb_first' = IF merge_calls = 0 THEN Some(r.hb_tracks[1]) ELSE hb_first
    /\ merge_calls' = merge_calls + 1
    /\ merge_outcome' = "ok"
    /\ UNCHANGED <<merge_pc, ff_streams, hb_initial>>
    /\ UNCHANGED notMergeVars

\* merge_track_titles(hb_tracks, ff_streams) raises: titles assigned before
\* the failing assert stay assigned.
MergeTrackTitlesRaises ==
    /\ merge_pc = "call"
    /\ merge_calls < MaxMergeCalls
    /\ LET r == merge_track_titles(Some(hb_tracks), ff_streams)
       IN  /\ r.raised # None
           /\ hb_tracks' = r.hb_tracks[1]
           /\ merge_outcome' = r.raised[1].message
    /\ merge_pc' = "raised"
    /\ merge_calls' = merge_calls + 1
    /\ UNCHANGED <<ff_streams, hb_initial, hb_first>>
    /\ UNCHANGED notMergeVars

MergeNext ==
    \/ MergeTrackTitles
    \/ MergeTrackTitlesRaises

MergeSpec == MergeInit /\ [][MergeNext]_vars

(***************************************************************************)
(* One run of main(): generate_batches, then execute_batch per batch       *)
(***************************************************************************)
MaxRunFiles == 3

RECURSIVE Sum(_)
Sum(counts) == IF counts = <<>> THEN 0 ELSE Head(counts) + Sum(Tail(counts))

\* os.walk as get_files_in_dir filters it: per directory with videos, the
\* number of its video files (at least one); MaxRunFiles files in all.
DirLists == {counts \in SeqsUpTo(1..MaxRunFiles, MaxRunFiles) : Sum(counts) <= MaxRunFiles}

AUDIO_LANGUAGES == <<jpn, eng>>
SUBTITLE_LANGUAGES == <<eng>>
DuplicateActions == {"skip", "overwrite", "prompt"}

\* What a scan can report: two English audio tracks and a French one, no
\* subtitles; the same with another bit rate, or another sample rate, on the
\* French track.
RunAudio(index, language_code) ==
    [BaseAudio EXCEPT !.index = index, !.language_code = language_code,
                      !.description = "AAC (2.0 ch)"]
RunLayout == [audio_tracks |-> <<RunAudio(1, eng), RunAudio(2, eng), RunAudio(3, fre)>>,
              subtitle_tracks |-> <<>>]
RunLayouts ==
    {RunLayout,
     [RunLayout EXCEPT !.audio_tracks[3].bit_rate = Some(192000)],
     [RunLayout EXCEPT !.audio_tracks[3].sample_rate = Some(44100)]}

\* Exceptions get_track_info lets through: the scanner's exit code, and what
\* parse_handbrake_scan_output raises.
ScanErrors == {"CalledProcessError", "ValueError", "AssertionError"}

\* What os.path.exists / os.path.isdir find at an output path.
DestKinds == {"absent", "dir", "file"}

\* External processes started and not yet waited for.
Process(kind, dir, file) == [kind |-> kind, dir |-> dir, file |-> file]
Popen(ps, p) == ps \cup {p}

\* Mutant: the process is not reaped.
wait_leaves_process(ps, p) == ps

wait(ps, p) == ps \ {p}

\* Mutant: the file is left on disk.
try_delete_file_keeps(present, path) == present

\* try_delete_file on the output in progress: present is None or <<path>>.
try_delete_file(present, path) == IF present = Some(path) THEN None ELSE present

BatchInfo(dir_path, file_names, audio_track_, subtitle_track_) ==
    [dir_path |-> dir_path, file_names |-> file_names,
     audio_track |-> audio_track_, subtitle_track |-> subtitle_track_]

RunInit ==
    /\ run_pc = "generate"
    /\ duplicate_action \in DuplicateActions
    /\ dir_list \in DirLists
    /\ dir_index = 0
    /\ file_index = 0
    /\ mixed = FALSE
    /\ audio_track = None
    /\ subtitle_track = None
    /\ prompted = {}
    /\ batch_list = <<>>
    /\ batch_index = 0
    /\ procs = {}
    /\ partial_output = None
    /\ attempts = 0
    /\ last_exit = "none"
    /\ exit_cause = "none"
    /\ exit_at = "none"
    /\ existing = {}
    /\ SelIdle
    /\ DirIdle
    /\ ParseIdle
    /\ MergeIdle

\* An exception that nothing between its origin and the top level handles:
\* the program ends (silently for KeyboardInterrupt, with a traceback else).
Propagates(cause) ==
    /\ run_pc' = "ended"
    /\ exit_cause' = cause
    /\ exit_at' = run_pc

\* Mutant: execution starts as soon as one batch has been generated.
NextDirectory_executes_first_batch ==
    /\ run_pc = "generate"
    /\ IF dir_index < Len(dir_list) /\ batch_list = <<>>
       THEN /\ dir_index' = dir_index + 1
            /\ run_pc' = "scan"
            /\ mixed' = FALSE
            /\ prompted' = {}
            /\ UNCHANGED batch_index
       ELSE /\ batch_index' = 1
            /\ run_pc' = "execute"
            /\ UNCHANGED <<dir_index, mixed, prompted>>
    /\ file_index' = 0
    /\ track_info_set' = {}
    /\ audio_track' = None
    /\ subtitle_track' = None
    /\ UNCHANGED <<duplicate_action, dir_list, batch_list, procs,
                   partial_output, attempts, last_exit, exit_cause, exit_at>>
    /\ UNCHANGED existing
    /\ UNCHANGED notRunVars

\* generate_batches, head of the for loop: the next directory enters
\* generate_batch, or batch_list is returned to main and its loop starts.
NextDirectory ==
    /\ run_pc = "generate"
    /\ IF dir_index < Len(dir_list)
       THEN /\ dir_index' = dir_index + 1
            /\ run_pc' = "scan"
            /\ mixed' = FALSE
            /\ prompted' = {}
            /\ UNCHANGED batch_index
       ELSE /\ batch_index' = 1
            /\ run_pc' = "execute"
            /\ UNCHANGED <<dir_index, mixed, prompted>>
    /\ file_index' = 0
    /\ track_info_set' = {}
    /\ audio_track' = None
    /\ subtitle_track' = None
    /\ UNCHANGED <<duplicate_action, dir_list, batch_list, procs,
                   partial_output, attempts, last_exit, exit_cause, exit_at>>
    /\ UNCHANGED existing
    /\ UNCHANGED notRunVars

ScanProcess == Process("scan", dir_index, file_index + 1)

\* run_handbrake_scan: subprocess.check_output starts the scanner.
ScanStart ==
    /\ run_pc = "scan"
    /\ procs' = Popen(procs, ScanProcess)
    /\ run_pc' = "scanning"
    /\ UNCHANGED <<duplicate_action, dir_list, dir_index, file_index, mixed,
                   audio_track, subtitle_track, prompted, batch_list, batch_index,
                   partial_output, attempts, last_exit, exit_cause, exit_at,
                   track_info_set>>
    /\ UNCHANGED existing
    /\ UNCHANGED notRunVars

\* The scanner exits with code 0 and its output parses: one pass of the for
\* loop of get_track_info_for_directory.
ScanReturns ==
    /\ run_pc = "scanning"
    /\ \E track_info \in RunLayouts :
           /\ track_info_set' = set_add(track_info_set, track_info)
           /\ mixed' = (mixed \/ (track_info_set # {} /\ track_info \notin track_info_set))
    /\ procs' = wait(procs, ScanProcess)
    /\ file_index' = file_index + 1
    /\ run_pc' = IF Cardinality(track_info_set') > 1 THEN "generate"
                 ELSE IF file_index' < dir_list[dir_index] THEN "scan"
                 ELSE "select_audio"
    /\ UNCHANGED <<duplicate_action, dir_list, dir_index, audio_track, subtitle_track,
                   prompted, batch_list, batch_index, partial_output, attempts,
                   last_exit, exit_cause, exit_at>>
    /\ UNCHANGED existing
    /\ UNCHANGED notRunVars

\* The scanner exits with a nonzero code, or its output does not parse:
\* get_track_info_for_directory, generate_batch, generate_batches and main
\* have no handler.
ScanRaises ==
    /\ run_pc = "scanning"
    /\ \E cause \in ScanErrors : Propagates(cause)
    /\ procs' = wait(procs, ScanProcess)
    /\ UNCHANGED <<duplicate_action, dir_list, dir_index, file_index, mixed,
                   audio_track, subtitle_track, prompted, batch_list, batch_index,
                   partial_output, attempts, last_exit, track_info_set>>
    /\ UNCHANGED existing
    /\ UNCHANGED notRunVars

\* Interrupt during check_output: subprocess kills the scanner and waits.
ScanInterrupted ==
    /\ run_pc = "scanning"
    /\ Propagates("KeyboardInterrupt")
    /\ procs' = wait(procs, ScanProcess)
    /\ UNCHANGED <<duplicate_action, dir_list, dir_index, file_index, mixed,
                   audio_track, subtitle_track, prompted, batch_list, batch_index,
                   partial_output, attempts, last_exit, track_info_set>>
    /\ UNCHANGED existing
    /\ UNCHANGED notRunVars

\* track_info_set.pop() of a set of one element.
track_info_of_directory == CHOOSE x \in track_info_set : TRUE

SelectPc(kind) == IF kind = "audio" THEN "select_audio" ELSE "select_subtitle"
PromptPc(kind) == IF kind = "audio" THEN "prompt_audio" ELSE "prompt_subtitle"
AfterSelect(kind) == IF kind = "audio" THEN "select_subtitle" ELSE "filter"

Selection(kind) ==
    IF kind = "audio"
    THEN select_best_track(track_info_of_directory.audio_tracks, AUDIO_LANGUAGES)
    ELSE select_best_track(track_info_of_directory.subtitle_tracks, SUBTITLE_LANGUAGES)

Selected(kind, track) ==
    IF kind = "audio"
    THEN audio_track' = track /\ UNCHANGED subtitle_track
    ELSE subtitle_track' = track /\ UNCHANGED audio_track

\* generate_batch calls select_best_track: it returns, or blocks in the
\* input() of prompt_select_track.
SelectTrack(kind) ==
    /\ run_pc = SelectPc(kind)
    /\ IF Selection(kind).prompt
       THEN /\ run_pc' = PromptPc(kind)
            /\ prompted' = prompted \cup {kind}
            /\ UNCHANGED <<audio_track, subtitle_track>>
       ELSE /\ run_pc' = AfterSelect(kind)
            /\ Selected(kind, Selection(kind).track)
            /\ UNCHANGED prompted
    /\ UNCHANGED <<duplicate_action, dir_list, dir_index, file_index, mixed,
                   batch_list, batch_index, procs, partial_output, attempts,
                   last_exit, exit_cause, exit_at, track_info_set>>
    /\ UNCHANGED existing
    /\ UNCHANGED notRunVars

\* The user types a line that prompt_select_track accepts.
AnswerPrompt(kind) ==
    /\ run_pc = PromptPc(kind)
    /\ \E line \in InputLines :
           /\ prompt_select_track(Selection(kind).list, line) # None
           /\ Selected(kind, prompt_select_track(Selection(kind).list, line))
    /\ run_pc' = AfterSelect(kind)
    /\ UNCHANGED <<duplicate_action, dir_list, dir_index, file_index, mixed, prompted,
                   batch_list, batch_index, procs, partial_output, attempts,
                   last_exit, exit_cause, exit_at, track_info_set>>
    /\ UNCHANGED existing
    /\ UNCHANGED notRunVars

\* End of input or an interrupt at the prompt.
PromptAborted(kind) ==
    /\ run_pc = PromptPc(kind)
    /\ \E cause \in {"EOFError", "KeyboardInterrupt"} : Propagates(cause)
    /\ UNCHANGED <<duplicate_action, dir_list, dir_index, file_index, mixed,
                   audio_track, subtitle_track, prompted, batch_list, batch_index,
                   procs, partial_output, attempts, last_exit, track_info_set>>
    /\ UNCHANGED existing
    /\ UNCHANGED notRunVars

\* check_output_path by what is at the output path.  For an existing regular
\* file it reads args.duplicate_action, but args is a local of main(), not a
\* name of the module: the lookup raises NameError under every action.
check_output_path(dest) ==
    IF dest = "absent" THEN [raised |-> "none", value |-> TRUE]
    ELSE IF dest = "dir" THEN [raised |-> "none", value |-> FALSE]
    ELSE [raised |-> "NameError", value |-> FALSE]

\* should_convert of filter_batch_files: the files, in order, whose check
\* returned true.
RECURSIVE should_convert_from(_, _)
should_convert_from(dests, k) ==
    IF k > Len(dests) THEN <<>>
    ELSE IF check_output_path(dests[k]).value
    THEN <<k>> \o should_convert_from(dests, k + 1)
    ELSE should_convert_from(dests, k + 1)

\* filter_batch_files returns and generate_batch with it: a BatchInfo is
\* appended unless no file is left.
FilterBatchFiles ==
    /\ run_pc = "filter"
    /\ \E dests \in [1..dir_list[dir_index] -> DestKinds] :
           /\ \A k \in DOMAIN dests : check_output_path(dests[k]).raised = "none"
           /\ LET should_convert == should_convert_from(dests, 1)
              IN  batch_list' =
                      IF Len(should_convert) = 0 THEN batch_list
                      ELSE Append(batch_list, BatchInfo(dir_index, should_convert,
                                                        audio_track, subtitle_track))
    /\ run_pc' = "generate"
    /\ UNCHANGED <<duplicate_action, dir_list, dir_index, file_index, mixed,
                   audio_track, subtitle_track, prompted, batch_index, procs,
                   partial_output, attempts, last_exit, exit_cause, exit_at,
                   track_info_set>>
    /\ UNCHANGED existing
    /\ UNCHANGED notRunVars

\* check_output_path raises for the first file whose output exists as a
\* regular file; nothing up to the top level handles NameError.
FilterBatchFilesRaises ==
    /\ run_pc = "filter"
    /\ \E dests \in [1..dir_list[dir_index] -> DestKinds] :
           \E n \in DOMAIN dests :
               /\ check_output_path(dests[n]).raised # "none"
               /\ \A k \in 1..(n - 1) : check_output_path(dests[k]).raised = "none"
               /\ existing' = existing \cup {<<dir_index, n>>}
               /\ Propagates(check_output_path(dests[n]).raised)
    /\ UNCHANGED <<duplicate_action, dir_list, dir_index, file_index, mixed,
                   audio_track, subtitle_track, prompted, batch_list, batch_index,
                   procs, partial_output, attempts, last_exit, track_info_set>>
    /\ UNCHANGED notRunVars

\* The file the loops of main and execute_batch are at.
CurrentBatch == batch_list[batch_index]
OutputPath == <<CurrentBatch.dir_path, CurrentBatch.file_names[file_index + 1]>>
EncodeProcess == Process("encode", OutputPath[1], OutputPath[2])

\* The for loops of main and execute_batch move to the next file, the next
\* batch, or to logging "Done!".
NextFile ==
    /\ file_index' = IF file_index + 1 < Len(CurrentBatch.file_names)
                     THEN file_index + 1 ELSE 0
    /\ batch_index' = IF file_index + 1 < Len(CurrentBatch.file_names)
                      THEN batch_index ELSE batch_index + 1

\* main's loop is over: logging.info("Done!").
Done ==
    /\ run_pc = "execute"
    /\ batch_index > Len(batch_list)
    /\ run_pc' = "ended"
    /\ exit_cause' = "done"
    /\ exit_at' = run_pc
    /\ UNCHANGED <<duplicate_action, dir_list, dir_index, file_index, mixed,
                   audio_track, subtitle_track, prompted, batch_list, batch_index,
                   procs, partial_output, attempts, last_exit, track_info_set,
                   existing>>
    /\ UNCHANGED notRunVars

\* run_handbrake: Popen starts the encoder, which opens its output file.
ConvertStart ==
    /\ run_pc = "execute"
    /\ batch_index <= Len(batch_list)
    /\ procs' = Popen(procs, EncodeProcess)
    /\ partial_output' = Some(OutputPath)
    /\ attempts' = attempts + 1
    /\ run_pc' = "reading"
    /\ UNCHANGED <<duplicate_action, dir_list, dir_index, file_index, mixed,
                   audio_track, subtitle_track, prompted, batch_list, batch_index,
                   last_exit, exit_cause, exit_at, track_info_set, existing>>
    /\ UNCHANGED notRunVars

\* process_handbrake_output reads to the end of the encoder's output and
\* returns; run_handbrake goes on to process.wait() outside its try block.
OutputEnds ==
    /\ run_pc = "reading"
    /\ run_pc' = "waiting"
    /\ UNCHANGED <<duplicate_action, dir_list, dir_index, file_index, mixed,
                   audio_track, subtitle_track, prompted, batch_list, batch_index,
                   procs, partial_output, attempts, last_exit, exit_cause,
                   exit_at, track_info_set, existing>>
    /\ UNCHANGED notRunVars

\* process.wait() returns 0: the output file is complete.
EncoderSucceeds ==
    /\ run_pc = "waiting"
    /\ procs' = wait(procs, EncodeProcess)
    /\ partial_output' = None
    /\ last_exit' = "zero"
    /\ NextFile
    /\ run_pc' = "execute"
    /\ UNCHANGED <<duplicate_action, dir_list, dir_index, mixed, audio_track,
                   subtitle_track, prompted, batch_list, attempts,
                   exit_cause, exit_at, track_info_set, existing>>
    /\ UNCHANGED notRunVars

\* process.wait() returns nonzero: run_handbrake raises CalledProcessError,
\* execute_batch logs it, deletes the output file and goes on.
EncoderFails ==
    /\ run_pc = "waiting"
    /\ procs' = wait(procs, EncodeProcess)
    /\ last_exit' = "nonzero"
    /\ partial_output' = try_delete_file(partial_output, OutputPath)
    /\ NextFile
    /\ run_pc' = "execute"
    /\ UNCHANGED <<duplicate_action, dir_list, dir_index, mixed, audio_track,
                   subtitle_track, prompted, batch_list, attempts, exit_cause,
                   exit_at, track_info_set, existing>>
    /\ UNCHANGED notRunVars

\* Interrupt inside process_handbrake_output: the except clause of
\* run_handbrake kills the encoder and waits, execute_batch deletes the
\* output file, and both re-raise.
InterruptedWhileReading ==
    /\ run_pc = "reading"
    /\ procs' = wait(procs, EncodeProcess)
    /\ partial_output' = try_delete_file(partial_output, OutputPath)
    /\ Propagates("KeyboardInterrupt")
    /\ UNCHANGED <<duplicate_action, dir_list, dir_index, file_index, mixed,
                   audio_track, subtitle_track, prompted, batch_list, batch_index,
                   attempts, last_exit, track_info_set, existing>>
    /\ UNCHANGED notRunVars

\* Interrupt inside the process.wait() that follows the try block of
\* run_handbrake: no handler there kills or waits; execute_batch deletes
\* the output file and re-raises.
InterruptedWhileWaiting ==
    /\ run_pc = "waiting"
    /\ partial_output' = try_delete_file(partial_output, OutputPath)
    /\ Propagates("KeyboardInterrupt")
    /\ UNCHANGED <<duplicate_action, dir_list, dir_index, file_index, mixed,
                   audio_track, subtitle_track, prompted, batch_list, batch_index,
                   procs, attempts, last_exit, track_info_set, existing>>
    /\ UNCHANGED notRunVars

RunNext ==
    \/ NextDirectory
    \/ ScanStart
    \/ ScanReturns
    \/ ScanRaises
    \/ ScanInterrupted
    \/ \E kind \in {"audio", "subtitle"} : SelectTrack(kind)
    \/ \E kind \in {"audio", "subtitle"} : AnswerPrompt(kind)
    \/ \E kind \in {"audio", "subtitle"} : PromptAborted(kind)
    \/ FilterBatchFiles
    \/ FilterBatchFilesRaises
    \/ Done
    \/ ConvertStart
    \/ OutputEnds
    \/ EncoderSucceeds
    \/ EncoderFails
    \/ InterruptedWhileReading
    \/ InterruptedWhileWaiting

RunSpec == RunInit /\ [][RunNext]_vars

(***************************************************************************)
(* Vocabulary of the selection properties, stated on the arguments alone   *)
(***************************************************************************)
CasePairs == {<<"e", "E">>, <<"n", "N">>, <<"g", "G">>}
SameLetter(a, b) == a = b \/ <<a, b>> \in CasePairs \/ <<b, a>> \in CasePairs
SameCode(a, b) ==
    /\ Len(a) = Len(b)
    /\ \A i \in DOMAIN a : SameLetter(a[i], b[i])

\* Positions of the tracks whose code equals the k-th preferred language.
Matches(k) ==
    {i \in DOMAIN track_list :
        SameCode(track_list[i].language_code, preferred_languages[k])}
NoMatch == \A k \in DOMAIN preferred_languages : Matches(k) = {}
FirstHit(k) ==
    /\ k \in DOMAIN preferred_languages
    /\ Matches(k) # {}
    /\ \A j \in 1..(k - 1) : Matches(j) = {}

RECURSIVE TracksAt(_, _)
TracksAt(tl, S) ==
    IF S = {} THEN <<>>
    ELSE LET m == CHOOSE i \in S : \A j \in S : j <= i
         IN  Append(TracksAt(tl, S \ {m}), tl[m])

Called == sel_pc # "call"
Returned == sel_pc = "done"

\* line is a decimal numeral for n: spaces, at most one sign, digits, spaces.
Denotes(line, n) ==
    \E i \in DOMAIN line : \E j \in i..Len(line) :
        /\ \A p \in i..j : line[p] \in Digits
        /\ \A p \in (j + 1)..Len(line) : line[p] = " "
        /\ \/ /\ \A p \in 1..(i - 1) : line[p] = " "
              /\ n = DecimalValue(SubSeq(line, i, j))
           \/ /\ i >= 2
              /\ line[i - 1] = "+"
              /\ \A p \in 1..(i - 2) : line[p] = " "
              /\ n = DecimalValue(SubSeq(line, i, j))
           \/ /\ i >= 2
              /\ line[i - 1] = "-"
              /\ \A p \in 1..(i - 2) : line[p] = " "
              /\ n = 0 - DecimalValue(SubSeq(line, i, j))

\* C1: with two or more tracks and no preferred language matching any track,
\* the prompt is invoked once on the whole input list, in input order, and
\* what select_best_track returns is what the prompt returned.
C1_NoMatchPromptsFullList ==
    (Called /\ Len(track_list) >= 2 /\ NoMatch) =>
        /\ sel_pc \in {"prompt", "done", "raised"}
        /\ prompt_calls = 1
        /\ prompt_list = track_list
        /\ Returned => (result # None /\ result = prompt_choice)

C1_Witness ==
    /\ Returned
    /\ Len(track_list) = 3
    /\ preferred_languages = <<jpn, ENG>>
    /\ NoMatch
    /\ prompt_list = track_list
    /\ result = Some(track_list[2])

\* C2: with two or more tracks, when the first preferred language that
\* matches any track matches several, the prompt is invoked once on exactly
\* the tracks of that language, in input order, and its result is returned.
C2_FirstHitManyPromptsSubset ==
    \A k \in DOMAIN preferred_languages :
        (Called /\ Len(track_list) >= 2 /\ FirstHit(k) /\ Cardinality(Matches(k)) > 1) =>
            /\ sel_pc \in {"prompt", "done", "raised"}
            /\ prompt_calls = 1
            /\ prompt_list = TracksAt(track_list, Matches(k))
            /\ Returned => (result # None /\ result = prompt_choice)

C2_Witness ==
    /\ Returned
    /\ variant = "aniconvert"
    /\ preferred_languages = <<jpn, eng>>
    /\ Len(track_list) = 3
    /\ track_list[1].language_code = eng
    /\ track_list[2].language_code = fre
    /\ track_list[3].language_code = eng
    /\ prompt_list = <<track_list[1], track_list[3]>>
    /\ result = Some(track_list[1])

\* C3: with two or more tracks, languages are tried in preference order,
\* compared without regard to case, languages without a match are skipped,
\* and when the first language with a match has exactly one matching track
\* that track is returned and the prompt is never invoked.
C3_FirstHitSingleReturned ==
    \A k \in DOMAIN preferred_languages :
        (Called /\ Len(track_list) >= 2 /\ FirstHit(k) /\ Cardinality(Matches(k)) = 1) =>
            /\ Returned
            /\ prompt_calls = 0
            /\ \E i \in Matches(k) : result = Some(track_list[i])

C3_Witness ==
    /\ Returned
    /\ variant = "aniconvert"
    /\ preferred_languages = <<ENG, jpn>>
    /\ Len(track_list) = 3
    /\ track_list[1].language_code = jpn
    /\ track_list[2].language_code = eng
    /\ track_list[3].language_code = jpn
    /\ result = Some(track_list[2])
    /\ prompt_calls = 0

C5_EmptyListReturnsNone ==
    (Called /\ Len(track_list) = 0) =>
        /\ Returned
        /\ result = None
        /\ prompt_calls = 0

\* C6 as claimed: the single-match and the no-match branch never invoke the
\* prompt, every other branch invokes it exactly once.
C6_Original ==
    (Called /\ variant = "aniconvert") =>
        IF /\ Len(track_list) >= 2
           /\ \/ NoMatch
              \/ \E k \in DOMAIN preferred_languages :
                    FirstHit(k) /\ Cardinality(Matches(k)) = 1
        THEN prompt_calls = 0
        ELSE prompt_calls = 1

\* C6 as amended: a single track or a single match never invoke the prompt,
\* no match or several matches among two or more tracks invoke it exactly
\* once, and aniconvert.py never invokes it for an empty list.
C6_PromptCallsPerBranch ==
    Called =>
        /\ Len(track_list) = 1 => prompt_calls = 0
        /\ \A k \in DOMAIN preferred_languages :
              (Len(track_list) >= 2 /\ FirstHit(k)) =>
                  prompt_calls = (IF Cardinality(Matches(k)) = 1 THEN 0 ELSE 1)
        /\ (Len(track_list) >= 2 /\ NoMatch) => prompt_calls = 1
        /\ (Len(track_list) = 0 /\ variant = "aniconvert") => prompt_calls = 0

C6_Witness ==
    /\ sel_pc = "prompt"
    /\ variant = "aniconvert"
    /\ Len(track_list) = 2
    /\ preferred_languages = <<jpn>>
    /\ NoMatch
    /\ prompt_calls = 1

\* C7: the prompt is never handed an empty candidate list.
C7_PromptListNonEmpty ==
    prompt_calls > 0 => Len(prompt_list) >= 1

\* The candidates a line picks: those whose index the line is the numeral of.
Picks(line) == {t \in Range(prompt_list) : Denotes(line, t.index)}

\* C8: while the prompt waits, every line that is not the numeral of a
\* candidate's index makes the loop ask again and every other line returns
\* a candidate with that index; a track returned through the prompt is a
\* candidate picked by the line read, and whatever select_best_track returns
\* is a member of its input list.
C8_PromptReturnsCandidate ==
    /\ sel_pc = "prompt" =>
          \A line \in InputLines :
              LET choice == prompt_select_track(prompt_list, line)
              IN  /\ Picks(line) = {} => choice = None
                  /\ choice # None => choice[1] \in Picks(line)
                  /\ Picks(line) # {} => choice # None
    /\ (Returned /\ prompt_calls > 0) =>
          /\ input_str # None
          /\ result # None
          /\ result = prompt_choice
          /\ result[1] \in Picks(input_str[1])
          /\ result[1] \in Range(prompt_list)
    /\ (Returned /\ result # None) => result[1] \in Range(track_list)

C8_Witness ==
    /\ Returned
    /\ variant = "aniconvert"
    /\ prompt_calls = 1
    /\ Len(track_list) = 3
    /\ Len(prompt_list) = 2
    /\ input_str = Some(<<" ", "2">>)
    /\ result # None
    /\ result[1].index = 2
    /\ result[1] \in Range(prompt_list)

\* C9: layouts are deduplicated only when every field of every descriptor
\* matches: two scanned layouts that compare equal are the same value, and
\* every scanned layout is itself a member of the layout set.
C9_EqualOnlyIfAllFieldsMatch ==
    /\ \A i \in DOMAIN scanned : \A j \in DOMAIN scanned :
          HandBrakeTrackInfo_eq(scanned[i], scanned[j]) => scanned[i] = scanned[j]
    /\ track_info_set = Range(scanned)

\* C10: the files are scanned in order; the shared layout is returned iff
\* all file_count layouts are the same value; otherwise None is returned
\* right after the first file whose layout differs from an earlier one.
C10_SharedLayoutIffAllEqual ==
    /\ Len(scanned) <= file_count
    /\ dir_pc = "done" =>
          LET n == Len(scanned)
              AllEqual == \A i \in 1..n : \A j \in 1..n : scanned[i] = scanned[j]
          IN  /\ dir_result # None <=> AllEqual
              /\ dir_result # None => (n = file_count /\ dir_result = Some(scanned[1]))
              /\ dir_result = None =>
                    /\ \A i \in 1..(n - 1) : \A j \in 1..(n - 1) : scanned[i] = scanned[j]
                    /\ \E i \in 1..(n - 1) : scanned[i] # scanned[n]

(***************************************************************************)
(* Vocabulary of the parser properties, stated on the lines alone          *)
(***************************************************************************)
\* The call of parse_handbrake_track_info under observation.
TrackCall == track_parse[1]

\* The k-th line after the sentinel of that call (k = 1, 2, ...).
SectionLine(k) == output_lines[TrackCall.start_index + 1 + k]

\* Number of consecutive lines after the sentinel that carry the item prefix.
IsItemRun(n) ==
    /\ TrackCall.start_index + 1 + n <= Len(output_lines)
    /\ \A k \in 1..n : SectionLine(k).kind = "item"
SectionLength == CHOOSE n \in 0..Len(output_lines) :
                     IsItemRun(n) /\ ~IsItemRun(n + 1)

\* C13: in the track parser every prefixed line of a section either becomes
\* one descriptor or makes the parse fail with a ValueError that reports that
\* very line; no prefixed line is skipped, so a parse that returns has as
\* many descriptors as the section has consecutive prefixed lines.
C13_EveryItemLineParsedOrReported ==
    track_parse # None =>
        LET r == TrackCall.returned
        IN  IF r.raised = None
            THEN /\ Len(r.tracks) = SectionLength
                 /\ r.i = TrackCall.start_index + 1 + SectionLength
            ELSE /\ r.raised[1].type = "ValueError"
                 /\ Len(r.tracks) < SectionLength
                 /\ r.raised[1].info_str = Some(SectionLine(Len(r.tracks) + 1).body)

C13_Witness ==
    /\ track_parse # None
    /\ TrackCall.returned.raised = None
    /\ SectionLength >= 2
    /\ Len(TrackCall.returned.tracks) = SectionLength

C13_WitnessFailure ==
    /\ track_parse # None
    /\ TrackCall.returned.raised # None
    /\ Len(TrackCall.returned.tracks) >= 1

\* C18: when the parse of a section returns, position k of its output is the
\* descriptor of the k-th item line of the section, and two lines with
\* different track index values give different descriptors.
C18_DescriptorsInLineOrder ==
    (track_parse # None /\ TrackCall.returned.raised = None) =>
        LET tracks == TrackCall.returned.tracks
        IN  /\ \A k \in 1..Len(tracks) :
                   /\ k <= SectionLength
                   /\ tracks[k].index = SectionLine(k).body.index
                   /\ tracks[k].language_code = SectionLine(k).body.language_code
                   /\ tracks[k].title = None
            /\ \A j, k \in 1..Len(tracks) :
                   SectionLine(j).body.index # SectionLine(k).body.index
                       => tracks[j] # tracks[k]

C18_Witness ==
    /\ track_parse # None
    /\ TrackCall.returned.raised = None
    /\ Len(TrackCall.returned.tracks) >= 2
    /\ SectionLine(1).body.index # SectionLine(2).body.index

(***************************************************************************)
(* Vocabulary of the reconciliation properties                             *)
(***************************************************************************)
\* The secondary sequence, when the report is present.
Secondary == ff_streams[1]
MergeCalled == merge_calls >= 1
SameLanguage(k) == Secondary[k].language_code = Some(hb_initial[k].language_code)
SecondaryTitle(k) ==
    IF "title" \in DOMAIN Secondary[k].metadata
    THEN Some(Secondary[k].metadata["title"])
    ELSE None
OnlyTitleDiffers(a, b) == \A f \in DOMAIN a : f # "title" => a[f] = b[f]

\* C14: with the secondary report present, reconciliation fails with a track
\* count mismatch when the two sequences differ in length (a secondary
\* sequence of length zero against a non-empty primary one included), fails
\* with a language code mismatch when some pair differs in language code, and
\* succeeds only when the lengths and all positional language codes agree.
C14_MismatchAlwaysFails ==
    (MergeCalled /\ ff_streams # None) =>
        /\ Len(hb_initial) # Len(Secondary)
               => merge_outcome = "Track count mismatch"
        /\ (/\ Len(hb_initial) = Len(Secondary)
            /\ \E k \in 1..Len(Secondary) : ~SameLanguage(k))
               => merge_outcome = "Track language code mismatch"
        /\ merge_outcome = "ok"
               => /\ Len(hb_initial) = Len(Secondary)
                  /\ \A k \in 1..Len(Secondary) : SameLanguage(k)

\* C19: a reconciliation that succeeds gives each descriptor the title of the
\* secondary record at its position, or none when that record has no title;
\* a second application with the same secondary data leaves the descriptors
\* as the first left them; no field other than title is changed.
C19_TitlesCopiedIdempotently ==
    (MergeCalled /\ merge_outcome = "ok") =>
        /\ Len(hb_tracks) = Len(hb_initial)
        /\ \A k \in 1..Len(hb_tracks) :
               /\ OnlyTitleDiffers(hb_tracks[k], hb_initial[k])
               /\ hb_tracks[k].title =
                      IF ff_streams # None /\ k <= Len(Secondary)
                      THEN SecondaryTitle(k) ELSE hb_initial[k].title
        /\ hb_tracks = hb_first[1]

C19_Witness ==
    /\ merge_calls = 2
    /\ merge_outcome = "ok"
    /\ \E k \in 1..Len(hb_tracks) : hb_tracks[k].title # None
    /\ \E k \in 1..Len(hb_tracks) : hb_tracks[k].title = None

(***************************************************************************)
(* Vocabulary of the run properties                                        *)
(***************************************************************************)
GenerationPcs == {"generate", "scan", "scanning", "select_audio", "prompt_audio",
                  "select_subtitle", "prompt_subtitle", "filter"}
ExecutionPcs == {"execute", "reading", "waiting"}
EncoderPcs == {"reading", "waiting"}

\* Where the program is, or was when it ended.
LastPc == IF run_pc = "ended" THEN exit_at ELSE run_pc

BatchOf(d) == {k \in DOMAIN batch_list : batch_list[k].dir_path = d}
InBatch(d, f) == \E k \in BatchOf(d) : f \in Range(batch_list[k].file_names)

\* Files of the batches before position k, and of all batches.
RECURSIVE FilesUpTo(_)
FilesUpTo(k) == IF k = 0 THEN 0 ELSE Len(batch_list[k].file_names) + FilesUpTo(k - 1)
BatchFileCount == FilesUpTo(Len(batch_list))

\* C11: a parse-level (ValueError) or reconciliation-level (AssertionError)
\* error raised while one file is scanned aborts that file's directory only;
\* the program never ends on such an error, the other directories are
\* scanned and the batches are executed.
C11_ScanErrorAbortsOnlyDirectory ==
    exit_cause \in {"ValueError", "AssertionError"} =>
        /\ run_pc # "ended"
        /\ dir_index = Len(dir_list) => attempts = BatchFileCount

\* C12: once two files of a directory have shown different layouts, the
\* directory gets no track prompt, no selection, no output check and no
\* batch, and the run goes on with the next directory.
C12_MixedDirectorySkipped ==
    mixed =>
        /\ prompted = {}
        /\ BatchOf(dir_index) = {}
        /\ LastPc \in {"generate"} \cup ExecutionPcs

C16_InterruptKillsEncoder ==
    (run_pc = "ended" /\ exit_at \in EncoderPcs) =>
        /\ procs = {}
        /\ partial_output = None

\* C17: for a file whose output path exists as a regular file the duplicate
\* action decides: the check returns (the program does not end in it), with
\* "skip" the file is left out of the batch and with "overwrite" it is in
\* the batch of its directory once that directory has been dealt with.
C17_DuplicateActionDecides ==
    \A path \in existing :
        /\ exit_cause # "NameError"
        /\ duplicate_action = "skip" => ~InBatch(path[1], path[2])
        /\ (duplicate_action = "overwrite" /\ LastPc # "filter")
               => InBatch(path[1], path[2])

\* C20: at most one external process is active at any point, and a scan or
\* a conversion is started only when no earlier process is left unwaited.
C20_OneProcessAtATime ==
    /\ [](Cardinality(procs) <= 1)
    /\ [][procs' \ procs # {} => procs = {}]_vars

C20_Witness ==
    /\ run_pc = "reading"
    /\ procs = {EncodeProcess}
    /\ attempts >= 2
    /\ dir_index >= 2

\* C21: batch generation strictly precedes batch execution: once a
\* conversion has been started every directory has been dealt with by
\* generate_batches and every prompt has been answered, and from then on no
\* scanner is started and no track prompt is shown.
C21_GenerationPrecedesExecution ==
    /\ [](attempts >= 1 => /\ dir_index = Len(dir_list)
                           /\ LastPc \in ExecutionPcs)
    /\ [][attempts >= 1 => /\ \A p \in procs' \ procs : p.kind = "encode"
                           /\ prompted' = prompted
                           /\ run_pc' \notin GenerationPcs]_vars

C21_Witness ==
    /\ run_pc = "waiting"
    /\ Len(dir_list) >= 2
    /\ Len(batch_list) >= 2
    /\ batch_index = 1
    /\ prompted # {}

\* A line of the given kind occurs in the scan text.
HasLine(kind) == \E k \in DOMAIN output_lines : output_lines[k].kind = kind

\* C22: parse_handbrake_scan_output never reads a line index at or past the
\* end of the line list (no IndexError), in aniconvert.py and in main.py,
\* whatever the text: also when a track section or the stream listing
\* reaches the last line.
C22_NoReadPastEnd ==
    /\ parse_result # None =>
           (parse_result[1].raised # None
               => parse_result[1].raised[1].type # "IndexError")
    /\ main_parse_result # None =>
           (main_parse_result[1].raised # None
               => main_parse_result[1].raised[1].type # "IndexError")

\* C23: for a text without the audio sentinel or without the subtitle
\* sentinel, parse_handbrake_scan_output returns a layout whose sequence for
\* each missing kind is empty; it does not fail for want of the section.
C23_MissingSectionIsEmpty ==
    (parse_result # None /\ ~(HasLine("audio_sentinel") /\ HasLine("subtitle_sentinel"))) =>
        LET r == parse_result[1]
        IN  IF r.raised # None
            THEN r.raised[1].type \in {"ValueError", "IndexError", "AssertionError"}
            ELSE /\ ~HasLine("audio_sentinel") => r.track_info[1].audio_tracks = <<>>
                 /\ ~HasLine("subtitle_sentinel") => r.track_info[1].subtitle_tracks = <<>>

\* C24: when merge_track_titles fails, on a track count mismatch or on a
\* language code mismatch at any position, no descriptor has been modified:
\* every title is as it was before the call.
C24_FailedMergeModifiesNothing ==
    merge_pc = "raised" => hb_tracks = hb_initial

\* C25: generate_batch asks for no track selection in a directory that
\* yields no batch: when filter_batch_files leaves no file to convert, no
\* track prompt has been shown for that directory.
C25_NoPromptWithoutBatch ==
    [][(run_pc = "filter" /\ run_pc' = "generate" /\ batch_list' = batch_list)
           => prompted = {}]_vars

====
